---- MODULE Spec2Model ----
(***************************************************************************)
(* Model of the order matching core of colerottenberg/orderbook:           *)
(*   src/src/matching/orderbook.rs  Price, Order, Limit, OrderBook         *)
(*   src/src/matching/engine.rs     Engine                                 *)
(*                                                                         *)
(* Quantities are f64 in the source.  They are modelled as binary floating *)
(* point numbers with a MantBits-bit significand and round-to-nearest,     *)
(* ties-to-even (f64 has 53 bits); a value is written as the natural       *)
(* number of smallest units it stands for.  Comparison is exact, addition  *)
(* and subtraction round.                                                  *)
(***************************************************************************)
EXTENDS Integers, Sequences, FiniteSets, TLC

VARIABLES limit, book, placed, orderbooks, call, compared, tasks, guards,
          serial

vars == <<limit, book, placed, orderbooks, call, compared, tasks, guards,
          serial>>

----------------------------------------------------------------------------
(* Bounds *)

\* significand width of the modelled floating point format
MantBits == 3
\* most orders a standalone Limit queue holds
MaxQueue == 3
\* most orders resting in the standalone OrderBook
MaxOrders == 3
\* most orders resting in all books of the Engine together
MaxEngineOrders == 2
\* largest integral and fractional part of the Prices compared
MaxPart == 1
\* requests the service is sent
MaxRequests == 2

----------------------------------------------------------------------------
(* f64 arithmetic on non-negative finite values *)

RECURSIVE Pow2(_)
Pow2(e) == IF e = 0 THEN 1 ELSE 2 * Pow2(e - 1)

\* the exponent of the unit in the last place of n
RECURSIVE UlpExp(_)
UlpExp(n) == IF n < Pow2(MantBits) THEN 0 ELSE 1 + UlpExp(n \div 2)

\* n rounded to the nearest representable value, ties to even
FRound(n) ==
    LET e == UlpExp(n)
        u == Pow2(e)
        q == n \div u
        r == n % u
    IN  IF r = 0 THEN n
        ELSE IF 2 * r > u \/ (2 * r = u /\ q % 2 = 1) THEN (q + 1) * u
        ELSE q * u

\* FSub that adds, as += written for -= would
FSub_adding(a, b) == FRound(a + b)

\* a - b on f64, for a >= b >= 0
FSub(a, b) == FRound(a - b)

\* a + b on f64
FAdd(a, b) == FRound(a + b)

\* a representable quantity q for which q - 1 is not representable
Big == Pow2(MantBits) + 2

\* the quantities incoming orders are created with
Qty == {1, 2, 3, Big}

\* the quantities the orders added to an OrderBook are created with
RestQty == {1, 2}

\* the quantities market orders are created with
MarketQty == {1, 2, Big}

----------------------------------------------------------------------------
(* Price *)

scalar == 100000

\* The decimal prices callers pass, each num/den with den a power of two, so
\* that (price % 1.0) * scalar is computed exactly by f64.
PriceIn ==
    { [num |-> 1048577, den |-> 1048576],
      [num |-> 3, den |-> 2],
      [num |-> 2, den |-> 1] }

\* the price 1.0
FirstPrice == [num |-> 1, den |-> 1]

\* Price::new: truncation of the integer part and of fractional * scalar
PriceNew(p) ==
    [ integral   |-> p.num \div p.den,
      fractional |-> ((p.num % p.den) * scalar) \div p.den,
      scalar     |-> scalar ]

\* Ord for Price
PriceCmp(a, b) ==
    IF a.integral < b.integral THEN "Less"
    ELSE IF a.integral > b.integral THEN "Greater"
    ELSE IF a.fractional < b.fractional THEN "Less"
    ELSE IF a.fractional > b.fractional THEN "Greater"
    ELSE "Equal"

\* the number of 1/scalar units a Price stands for
PriceVal(k) == k.integral * scalar + k.fractional

\* PriceEq as #[derive(PartialEq)] would define it, on all three fields
PriceEq_derived(a, b) == a = b

\* PartialEq for Price
PriceEq(a, b) == a.integral = b.integral /\ a.fractional = b.fractional

----------------------------------------------------------------------------
(* Order *)

OrderType == {"Bid", "Ask"}

OrderNew(order_type, size) == [size |-> size, order_type |-> order_type]

is_filled(order) == order.size = 0

----------------------------------------------------------------------------
(* Limit *)

LimitNew(p) == [price |-> PriceNew(p), orders |-> <<>>]

\* LimitAdd that puts the order at the front of the queue
LimitAdd_front(l, order) == [l EXCEPT !.orders = <<order>> \o @]

LimitAdd(l, order) == [l EXCEPT !.orders = Append(@, order)]

\* Limit::volume: the sizes reduced from the left with f64 addition
RECURSIVE SumFrom(_, _, _)
SumFrom(orders, i, acc) ==
    IF i > Len(orders) THEN acc
    ELSE SumFrom(orders, i + 1, FAdd(acc, orders[i].size))

volume(l) ==
    IF Len(l.orders) = 0 THEN 0
    ELSE SumFrom(l.orders, 2, l.orders[1].size)

\* FillOne without the comparison: the resting order is always consumed
FillOne_unchecked(orders, i, m) ==
    [orders |-> [orders EXCEPT ![i].size = 0],
     order  |-> [m EXCEPT !.size = FSub(m.size, orders[i].size)]]

\* one iteration of the loop of Limit::fill on the resting order at i
FillOne(orders, i, m) ==
    IF m.size >= orders[i].size
    THEN [orders |-> [orders EXCEPT ![i].size = 0],
          order  |-> [m EXCEPT !.size = FSub(m.size, orders[i].size)]]
    ELSE [orders |-> [orders EXCEPT ![i].size = FSub(orders[i].size, m.size)],
          order  |-> [m EXCEPT !.size = 0]]

\* FillFrom walking the queue from the back, newest order first
RECURSIVE FillFrom_newest(_, _, _)
FillFrom_newest(orders, i, m) ==
    IF i > Len(orders) THEN [orders |-> orders, order |-> m, visited |-> <<>>]
    ELSE LET j == Len(orders) + 1 - i
             r == FillOne(orders, j, m)
         IN  IF is_filled(r.order)
             THEN [orders |-> r.orders, order |-> r.order, visited |-> <<j>>]
             ELSE [FillFrom_newest(r.orders, i + 1, r.order)
                      EXCEPT !.visited = <<j>> \o @]

\* the loop of Limit::fill from position i, with its break; visited lists
\* the positions the loop body ran on
RECURSIVE FillFrom(_, _, _)
FillFrom(orders, i, m) ==
    IF i > Len(orders) THEN [orders |-> orders, order |-> m, visited |-> <<>>]
    ELSE LET r == FillOne(orders, i, m)
         IN  IF is_filled(r.order)
             THEN [orders |-> r.orders, order |-> r.order, visited |-> <<i>>]
             ELSE [FillFrom(r.orders, i + 1, r.order)
                      EXCEPT !.visited = <<i>> \o @]

\* LimitFill that drops the orders it has consumed from the queue
LimitFill_purging(l, market_order) ==
    LET r == FillFrom(l.orders, 1, market_order)
        IsOpen(o) == o.size # 0
    IN  [limit |-> [l EXCEPT !.orders = SelectSeq(r.orders, IsOpen)],
         order |-> r.order, visited |-> r.visited]

\* Limit::fill: the limit and the market order after the call
LimitFill(l, market_order) ==
    LET r == FillFrom(l.orders, 1, market_order)
    IN  [limit |-> [l EXCEPT !.orders = r.orders], order |-> r.order,
         visited |-> r.visited]

----------------------------------------------------------------------------
(* OrderBook *)

\* A BTreeMap<Price, Limit> is the sequence of its entries in key order.

\* the position of the entry whose key compares Equal to k, 0 when absent
RECURSIVE FindFrom(_, _, _)
FindFrom(map, k, i) ==
    IF i > Len(map) THEN 0
    ELSE IF PriceCmp(map[i].key, k) = "Equal" THEN i
    ELSE FindFrom(map, k, i + 1)

Find(map, k) == FindFrom(map, k, 1)

\* the number of entries whose key is Less than k
LessCount(map, k) ==
    Cardinality({i \in 1..Len(map) : PriceCmp(map[i].key, k) = "Less"})

\* OrInsert that inserts without looking the key up
OrInsert_always(map, k, v) ==
    LET n == LessCount(map, k)
    IN  SubSeq(map, 1, n) \o <<[key |-> k, value |-> v]>>
            \o SubSeq(map, n + 1, Len(map))

\* BTreeMap::entry(k).or_insert(v): the map afterwards
OrInsert(map, k, v) ==
    IF Find(map, k) # 0 THEN map
    ELSE LET n == LessCount(map, k)
         IN  SubSeq(map, 1, n) \o <<[key |-> k, value |-> v]>>
                 \o SubSeq(map, n + 1, Len(map))

OrderBookNew == [asks |-> <<>>, bids |-> <<>>]

\* the branch of OrderBook::add for one side's map
SideAdd(map, order, p) ==
    LET m == OrInsert(map, PriceNew(p), LimitNew(p))
        i == Find(m, PriceNew(p))
    IN  [m EXCEPT ![i].value = LimitAdd(@, order)]

\* OrderBook::add
OrderBookAdd(b, order, p) ==
    IF order.order_type = "Ask"
    THEN [b EXCEPT !.asks = SideAdd(@, order, p)]
    ELSE [b EXCEPT !.bids = SideAdd(@, order, p)]

\* the comparator closure of ask_limits
AskCmp(a, b) == PriceCmp(a.price, b.price)

\* BidCmp with its arguments in the order of AskCmp
BidCmp_ascending(a, b) == PriceCmp(a.price, b.price)

\* the comparator closure of bid_limits
BidCmp(a, b) == PriceCmp(b.price, a.price)

SideCmp(side, a, b) == IF side = "asks" THEN AskCmp(a, b) ELSE BidCmp(a, b)

\* Vec::sort_by (stable) on the references to map's Limits, each a position in
\* map: position i is inserted behind the last reference it is not Less than.
RECURSIVE SortInsert(_, _, _, _)
SortInsert(map, sorted, i, side) ==
    IF Len(sorted) = 0 THEN <<i>>
    ELSE IF SideCmp(side, map[i].value, map[sorted[Len(sorted)]].value) = "Less"
         THEN Append(SortInsert(map, SubSeq(sorted, 1, Len(sorted) - 1), i, side),
                     sorted[Len(sorted)])
         ELSE Append(sorted, i)

RECURSIVE SortFrom(_, _, _, _)
SortFrom(map, sorted, i, side) ==
    IF i > Len(map) THEN sorted
    ELSE SortFrom(map, SortInsert(map, sorted, i, side), i + 1, side)

\* OrderBook::ask_limits: the references to the ask Limits, as positions in asks
ask_limits(b) == SortFrom(b.asks, <<>>, 1, "asks")

\* OrderBook::bid_limits: the references to the bid Limits, as positions in bids
bid_limits(b) == SortFrom(b.bids, <<>>, 1, "bids")

\* the orders a fill of the Limit at ref visited, each as <<ref, position>>
Visits(ref, positions) == [j \in 1..Len(positions) |-> <<ref, positions[j]>>]

\* FillLimits that walks the limits a second time
RECURSIVE FillLimits_again(_, _, _, _)
FillLimits_again(map, limits, i, order) ==
    IF i > 2 * Len(limits) THEN [map |-> map, order |-> order, visited |-> <<>>]
    ELSE LET ref == limits[((i - 1) % Len(limits)) + 1]
             r == LimitFill(map[ref].value, order)
         IN  [FillLimits_again([map EXCEPT ![ref].value = r.limit],
                               limits, i + 1, r.order)
                 EXCEPT !.visited = Visits(ref, r.visited) \o @]

\* the loop of OrderBook::place_market_order over limits from position i
RECURSIVE FillLimits(_, _, _, _)
FillLimits(map, limits, i, order) ==
    IF i > Len(limits) THEN [map |-> map, order |-> order, visited |-> <<>>]
    ELSE LET r == LimitFill(map[limits[i]].value, order)
         IN  [FillLimits([map EXCEPT ![limits[i]].value = r.limit],
                         limits, i + 1, r.order)
                 EXCEPT !.visited = Visits(limits[i], r.visited) \o @]

\* PlaceMarketOrder that queues what is left of the order on its own side
PlaceMarketOrder_resting(b, order) ==
    LET r == IF order.order_type = "Ask"
             THEN FillLimits(b.bids, bid_limits(b), 1, order)
             ELSE FillLimits(b.asks, ask_limits(b), 1, order)
        filled == IF order.order_type = "Ask"
                  THEN [b EXCEPT !.bids = r.map]
                  ELSE [b EXCEPT !.asks = r.map]
    IN  [book  |-> IF is_filled(r.order) THEN filled
                   ELSE OrderBookAdd(filled, r.order, FirstPrice),
         order |-> r.order, visited |-> r.visited]

\* OrderBook::place_market_order: the book and the order after the call
PlaceMarketOrder(b, order) ==
    IF order.order_type = "Ask"
    THEN LET r == FillLimits(b.bids, bid_limits(b), 1, order)
         IN  [book |-> [b EXCEPT !.bids = r.map], order |-> r.order,
              visited |-> r.visited]
    ELSE LET r == FillLimits(b.asks, ask_limits(b), 1, order)
         IN  [book |-> [b EXCEPT !.asks = r.map], order |-> r.order,
              visited |-> r.visited]

\* the number of orders resting in a book
RECURSIVE CountFrom(_, _)
CountFrom(map, i) ==
    IF i > Len(map) THEN 0 ELSE Len(map[i].value.orders) + CountFrom(map, i + 1)

OrderCount(b) == CountFrom(b.asks, 1) + CountFrom(b.bids, 1)

----------------------------------------------------------------------------
(* Engine *)

TradingPairNew(base, quote) == [base |-> base, quote |-> quote]

\* the instruments callers name
Pairs ==
    { TradingPairNew("BTC", "USD"),
      TradingPairNew("btc", "USD"),
      TradingPairNew("ETH", "USD") }

\* Engine::new: the empty registry
EngineNew == [tp \in {} |-> OrderBookNew]

\* AddOrderbook that replaces the book registered under tp
AddOrderbook_replacing(obs, tp, b) ==
    [x \in DOMAIN obs \cup {tp} |-> IF x = tp THEN b ELSE obs[x]]

\* Engine::add_orderbook: the registry afterwards
AddOrderbook(obs, tp, b) ==
    IF tp \in DOMAIN obs THEN obs
    ELSE [x \in DOMAIN obs \cup {tp} |-> IF x = tp THEN b ELSE obs[x]]

\* PlaceLimitOrder that registers a new book for an unknown instrument
PlaceLimitOrder_creating(obs, tp, p, order) ==
    LET reg == AddOrderbook(obs, tp, OrderBookNew)
    IN  [orderbooks |-> [reg EXCEPT ![tp] = OrderBookAdd(@, order, p)],
         result     |-> "Ok"]

\* PlaceLimitOrder that finds the book by the quote symbol alone
PlaceLimitOrder_byQuote(obs, tp, p, order) ==
    IF \E x \in DOMAIN obs : x.quote = tp.quote
    THEN [orderbooks |-> [x \in DOMAIN obs |->
                            IF x.quote = tp.quote
                            THEN OrderBookAdd(obs[x], order, p) ELSE obs[x]],
          result     |-> "Ok"]
    ELSE [orderbooks |-> obs, result |-> "Err(Orderbook does not exist)"]

\* PlaceLimitOrder that first matches the order against the opposite side
\* and queues what is left of it
PlaceLimitOrder_matching(obs, tp, p, order) ==
    IF tp \in DOMAIN obs
    THEN LET r == PlaceMarketOrder(obs[tp], order)
         IN  [orderbooks |-> [obs EXCEPT ![tp] = OrderBookAdd(r.book, r.order, p)],
              result     |-> "Ok"]
    ELSE [orderbooks |-> obs, result |-> "Err(Orderbook does not exist)"]

\* Engine::place_limit_order: the registry afterwards and the value returned
PlaceLimitOrder(obs, tp, p, order) ==
    IF tp \in DOMAIN obs
    THEN [orderbooks |-> [obs EXCEPT ![tp] = OrderBookAdd(@, order, p)],
          result     |-> "Ok"]
    ELSE [orderbooks |-> obs, result |-> "Err(Orderbook does not exist)"]

\* the number of orders resting in the registry's books
RECURSIVE EngineCount(_, _)
EngineCount(obs, keys) ==
    IF keys = {} THEN 0
    ELSE LET k == CHOOSE x \in keys : TRUE
         IN  OrderCount(obs[k]) + EngineCount(obs, keys \ {k})

----------------------------------------------------------------------------
(* State *)

\* limit       a Limit held by a caller of Limit::add and Limit::fill
\* book        an OrderBook held by a caller of OrderBook::add and
\*             OrderBook::place_market_order
\* placed      history: book as it would be had no market order been placed,
\*             so that placed holds the size every resting order was added with
\* orderbooks  Engine.orderbooks
\* compared    three Prices held by a caller of cmp and eq, and the results
\* tasks       the service's requests: where each is in its handler, what it
\*             was sent, the Engine as it read it and its response
\* guards      the requests that hold a MutexGuard of the service's engine
\* serial      the Engine and the responses when the requests run one after
\*             another in the order they acquired the guard
\* call        the last call made: its arguments, the caller's order after it,
\*             the value it returned, and the resting orders its loops visited

NoPair == TradingPairNew("", "")
NoPrice == [num |-> 0, den |-> 1]
NoOrder == OrderNew("Bid", 0)

Call(op, tp, p, order, out, result, arg) ==
    [op |-> op, tp |-> tp, price |-> p, order |-> order, out |-> out,
     result |-> result, orderbook |-> arg, visited |-> <<>>]

\* a response of the service: Ok(Response) or Err(Status)
Reply(code, message, value) == [code |-> code, message |-> message, spread |-> value]

NoResponse == Reply("", "", 0)

\* a request message; GetSpreadRequest has the trading_pair alone
Request(trading_pair, order_type, p, size) ==
    [trading_pair |-> trading_pair, order_type |-> order_type, price |-> p,
     size |-> size]

NoRequest == Request("", "", NoPrice, 0)

\* a request the service has not been sent yet
Idle ==
    [pc |-> "idle", method |-> "", req |-> NoRequest, engine |-> EngineNew,
     response |-> NoResponse]

\* the serial execution before any request acquired the guard
Serial(engine) ==
    [engine |-> engine, order |-> <<>>,
     responses |-> [i \in 1..MaxRequests |-> NoResponse]]

\* what cmp and eq return on three Prices
Compare(a, b, c) ==
    [a |-> a, b |-> b, c |-> c,
     ab |-> PriceCmp(a, b), ba |-> PriceCmp(b, a), bc |-> PriceCmp(b, c),
     ac |-> PriceCmp(a, c), eq |-> PriceEq(a, b)]

Init ==
    /\ limit = LimitNew(FirstPrice)
    /\ book = OrderBookNew
    /\ placed = OrderBookNew
    /\ orderbooks = EngineNew
    /\ call = Call("new", NoPair, NoPrice, NoOrder, NoOrder, "", OrderBookNew)
    /\ compared = Compare(PriceNew(FirstPrice), PriceNew(FirstPrice),
                          PriceNew(FirstPrice))
    /\ tasks = [i \in 1..MaxRequests |-> Idle]
    /\ guards = {}
    /\ serial = Serial(EngineNew)

----------------------------------------------------------------------------
(* A caller of Limit *)

LimitAddCall(order) ==
    /\ Len(limit.orders) < MaxQueue
    /\ limit' = LimitAdd(limit, order)
    /\ call' = Call("Limit::add", NoPair, NoPrice, order, order, "", OrderBookNew)
    /\ UNCHANGED <<book, placed, orderbooks, compared, tasks, guards, serial>>

LimitFillCall(order) ==
    LET r == LimitFill(limit, order)
    IN  /\ limit' = r.limit
        /\ call' = [Call("Limit::fill", NoPair, NoPrice, order, r.order, "",
                         OrderBookNew) EXCEPT !.visited = Visits(1, r.visited)]
        /\ UNCHANGED <<book, placed, orderbooks, compared, tasks, guards, serial>>

NextLimit ==
    \/ \E t \in OrderType, q \in Qty : LimitAddCall(OrderNew(t, q))
    \/ \E t \in OrderType, q \in Qty : LimitFillCall(OrderNew(t, q))

SpecLimit == Init /\ [][NextLimit]_vars

----------------------------------------------------------------------------
(* A caller of Price *)

\* the Prices compared: scalar is 100000 in every Price that Price::new or
\* Default builds, and any value in a Price built field by field
Prices ==
    [integral : 0..MaxPart, fractional : 0..MaxPart, scalar : {scalar, 10}]

PriceCmpCall(a, b, c) ==
    /\ compared' = Compare(a, b, c)
    /\ call' = Call("Price::cmp", NoPair, NoPrice, NoOrder, NoOrder, "", OrderBookNew)
    /\ UNCHANGED <<limit, book, placed, orderbooks, tasks, guards, serial>>

NextPrice == \E a, b, c \in Prices : PriceCmpCall(a, b, c)

SpecPrice == Init /\ [][NextPrice]_vars

----------------------------------------------------------------------------
(* A caller of OrderBook *)

AddCall(order, p) ==
    /\ OrderCount(book) < MaxOrders
    /\ book' = OrderBookAdd(book, order, p)
    /\ placed' = OrderBookAdd(placed, order, p)
    /\ call' = Call("OrderBook::add", NoPair, p, order, order, "", OrderBookNew)
    /\ UNCHANGED <<limit, orderbooks, compared, tasks, guards, serial>>

PlaceMarketOrderCall(order) ==
    LET r == PlaceMarketOrder(book, order)
    IN  /\ book' = r.book
        /\ call' = [Call("OrderBook::place_market_order", NoPair, NoPrice, order,
                         r.order, "", OrderBookNew) EXCEPT !.visited = r.visited]
        /\ UNCHANGED <<limit, placed, orderbooks, compared, tasks, guards, serial>>

Next ==
    \/ \E t \in OrderType, q \in RestQty, p \in PriceIn : AddCall(OrderNew(t, q), p)
    \/ \E t \in OrderType, q \in MarketQty : PlaceMarketOrderCall(OrderNew(t, q))

Spec == Init /\ [][Next]_vars

----------------------------------------------------------------------------
(* A caller of Engine *)

\* the prices limit orders are placed at through the Engine
EnginePriceIn == {FirstPrice, [num |-> 2, den |-> 1]}

\* the books callers register: a new one, and ones that already hold an order
SuppliedBooks ==
    { OrderBookNew,
      OrderBookAdd(OrderBookNew, OrderNew("Bid", 1), FirstPrice),
      OrderBookAdd(OrderBookNew, OrderNew("Ask", 2), FirstPrice) }

AddOrderbookCall(tp, b) ==
    /\ EngineCount(orderbooks, DOMAIN orderbooks) + OrderCount(b) <= MaxEngineOrders
    /\ orderbooks' = AddOrderbook(orderbooks, tp, b)
    /\ call' = Call("Engine::add_orderbook", tp, NoPrice, NoOrder, NoOrder, "", b)
    /\ UNCHANGED <<limit, book, placed, compared, tasks, guards, serial>>

PlaceLimitOrderCall(tp, p, order) ==
    LET r == PlaceLimitOrder(orderbooks, tp, p, order)
    IN  /\ tp \in DOMAIN orderbooks =>
                EngineCount(orderbooks, DOMAIN orderbooks) < MaxEngineOrders
        /\ orderbooks' = r.orderbooks
        /\ call' = Call("Engine::place_limit_order", tp, p, order, order,
                        r.result, OrderBookNew)
        /\ UNCHANGED <<limit, book, placed, compared, tasks, guards, serial>>

NextEngine ==
    \/ \E tp \in Pairs, b \in SuppliedBooks : AddOrderbookCall(tp, b)
    \/ \E tp \in Pairs, p \in EnginePriceIn, t \in OrderType, q \in RestQty :
            PlaceLimitOrderCall(tp, p, OrderNew(t, q))

SpecEngine == Init /\ [][NextEngine]_vars

----------------------------------------------------------------------------
(* The service of server.rs: MyOrderBookService { engine: Arc<Mutex<Engine>> } *)

\* OrderBook::spread, which get_spread calls and orderbook.rs does not
\* define: the best ask price minus the best bid price, and no value when
\* either side has no Limit
spread(b) ==
    IF Len(b.asks) = 0 \/ Len(b.bids) = 0
    THEN [some |-> FALSE, value |-> 0]
    ELSE [some |-> TRUE,
          value |-> PriceVal(b.asks[1].key) - PriceVal(b.bids[Len(b.bids)].key)]

\* Mutex::lock that hands out a guard while another one is alive
MutexLock_shared(held) == TRUE

\* Mutex::lock().await returns once no MutexGuard is alive
MutexLock(held) == held = {}

\* add_order's match on req.order_type
ParseOrderType(s) == IF s \in {"Bid", "Ask"} THEN s ELSE "invalid"

\* add_order's match on the result of place_limit_order
AddOrderReply(result) ==
    IF result = "Ok" THEN Reply("Ok", "Order placed successfully", 0)
    ELSE Reply("Internal", "Orderbook does not exist", 0)

\* get_spread's match on the registry's entry and on its spread
GetSpreadReply(obs, tp) ==
    IF tp \in DOMAIN obs
    THEN IF spread(obs[tp]).some
         THEN Reply("Ok", "", spread(obs[tp]).value)
         ELSE Reply("NotFound", "No spread available", 0)
    ELSE Reply("NotFound", "Orderbook not found", 0)

\* the body of a handler once it holds the guard, run on the Engine obs:
\* the Engine afterwards and the response
Handle(obs, t) ==
    LET tp == TradingPairNew(t.req.trading_pair, "USD")
    IN  IF t.method = "add_order"
        THEN LET r == PlaceLimitOrder(obs, tp, t.req.price,
                                      OrderNew(t.req.order_type, t.req.size))
             IN  [orderbooks |-> r.orderbooks, response |-> AddOrderReply(r.result)]
        ELSE [orderbooks |-> obs, response |-> GetSpreadReply(obs, tp)]

\* the symbols and the messages clients send
Symbols == {"BTC", "ETH"}

AddOrderRequests ==
    {Request(s, t, FirstPrice, q) : s \in Symbols, t \in {"Bid", "Ask", "bid"},
                                    q \in RestQty}

GetSpreadRequests == {Request(s, "", NoPrice, 0) : s \in Symbols}

\* the Engines the service is built around: the empty registry of main, and a
\* registry with a quoted BTC/USD book and an empty ETH/USD book
ServedEngines ==
    { EngineNew,
      AddOrderbook(
        AddOrderbook(EngineNew, TradingPairNew("BTC", "USD"),
            OrderBookAdd(OrderBookAdd(OrderBookNew, OrderNew("Bid", 1), FirstPrice),
                         OrderNew("Ask", 1), [num |-> 2, den |-> 1])),
        TradingPairNew("ETH", "USD"), OrderBookNew) }

InitServer ==
    /\ limit = LimitNew(FirstPrice)
    /\ book = OrderBookNew
    /\ placed = OrderBookNew
    /\ orderbooks \in ServedEngines
    /\ call = Call("new", NoPair, NoPrice, NoOrder, NoOrder, "", OrderBookNew)
    /\ compared = Compare(PriceNew(FirstPrice), PriceNew(FirstPrice),
                          PriceNew(FirstPrice))
    /\ tasks = [i \in 1..MaxRequests |-> Idle]
    /\ guards = {}
    /\ serial = Serial(orderbooks)

\* add_order up to lock(): an order_type other than Bid and Ask is answered
\* before the guard is asked for
AddOrderCall(i, req) ==
    /\ tasks[i].pc = "idle"
    /\ tasks' = [tasks EXCEPT ![i] =
            IF ParseOrderType(req.order_type) = "invalid"
            THEN [@ EXCEPT !.pc = "done", !.method = "add_order", !.req = req,
                           !.response = Reply("InvalidArgument",
                                              "Invalid order type", 0)]
            ELSE [@ EXCEPT !.pc = "lock", !.method = "add_order", !.req = req]]
    /\ UNCHANGED <<limit, book, placed, orderbooks, call, compared, guards, serial>>

\* get_spread up to lock()
GetSpreadCall(i, req) ==
    /\ tasks[i].pc = "idle"
    /\ tasks' = [tasks EXCEPT ![i] =
            [@ EXCEPT !.pc = "lock", !.method = "get_spread", !.req = req]]
    /\ UNCHANGED <<limit, book, placed, orderbooks, call, compared, guards, serial>>

\* self.engine.lock().await returns a guard
Lock(i) ==
    /\ tasks[i].pc = "lock"
    /\ MutexLock(guards)
    /\ guards' = guards \cup {i}
    /\ tasks' = [tasks EXCEPT ![i].pc = "locked"]
    /\ serial' = LET r == Handle(serial.engine, tasks[i])
                 IN  [engine |-> r.orderbooks, order |-> Append(serial.order, i),
                      responses |-> [serial.responses EXCEPT ![i] = r.response]]
    /\ UNCHANGED <<limit, book, placed, orderbooks, call, compared>>

\* the handler reads the Engine through its guard
Deref(i) ==
    /\ tasks[i].pc = "locked"
    /\ tasks' = [tasks EXCEPT ![i] = [@ EXCEPT !.pc = "read", !.engine = orderbooks]]
    /\ UNCHANGED <<limit, book, placed, orderbooks, call, compared, guards, serial>>

\* the handler writes the Engine, builds its response and drops the guard
\* as it returns
Return(i) ==
    /\ tasks[i].pc = "read"
    /\ LET r == Handle(tasks[i].engine, tasks[i])
       IN  /\ orderbooks' = IF tasks[i].method = "add_order" THEN r.orderbooks
                            ELSE orderbooks
           /\ tasks' = [tasks EXCEPT ![i] =
                   [@ EXCEPT !.pc = "done", !.engine = EngineNew,
                              !.response = r.response]]
    /\ guards' = guards \ {i}
    /\ UNCHANGED <<limit, book, placed, call, compared, serial>>

NextServer ==
    \/ \E i \in 1..MaxRequests, req \in AddOrderRequests : AddOrderCall(i, req)
    \/ \E i \in 1..MaxRequests, req \in GetSpreadRequests : GetSpreadCall(i, req)
    \/ \E i \in 1..MaxRequests : Lock(i)
    \/ \E i \in 1..MaxRequests : Deref(i)
    \/ \E i \in 1..MaxRequests : Return(i)

SpecServer == InitServer /\ [][NextServer]_vars

----------------------------------------------------------------------------
(* Helpers of the properties *)

Max0(x) == IF x > 0 THEN x ELSE 0

\* the exact sum of the sizes of a queue
RECURSIVE ExactSum(_)
ExactSum(orders) ==
    IF Len(orders) = 0 THEN 0
    ELSE orders[Len(orders)].size + ExactSum(SubSeq(orders, 1, Len(orders) - 1))

\* the exact sum of the sizes of all queues of one side
RECURSIVE ExactSideSum(_)
ExactSideSum(map) ==
    IF Len(map) = 0 THEN 0
    ELSE ExactSum(map[Len(map)].value.orders)
            + ExactSideSum(SubSeq(map, 1, Len(map) - 1))

\* the side of b an incoming order of type t is matched against, and its own
Opposing(b, t) == IF t = "Ask" THEN b.bids ELSE b.asks
Own(b, t) == IF t = "Ask" THEN b.asks ELSE b.bids

\* price a has priority over price b for an incoming order of type t
Better(t, a, b) ==
    IF t = "Ask" THEN PriceVal(a) > PriceVal(b) ELSE PriceVal(a) < PriceVal(b)

IsFillCall == call.op = "Limit::fill"
IsMarketCall == call.op = "OrderBook::place_market_order"
IsAddCall == call.op = "OrderBook::add"

----------------------------------------------------------------------------
(* C1 *)

\* C1: Limit.fill with an incoming order of remaining q on a level whose
\* resting orders sum to V leaves the incoming order with max(0, q - V), the
\* level with volume() = max(0, V - q), and the incoming order filled iff
\* q <= V.
C1_FillResult ==
    [][ IsFillCall' =>
          LET V == ExactSum(limit.orders)
              q == call'.order.size
          IN  /\ call'.out.size = Max0(q - V)
              /\ volume(limit') = Max0(V - q)
              /\ (is_filled(call'.out) <=> q <= V) ]_vars

----------------------------------------------------------------------------
(* C2 *)

Sides == {"asks", "bids"}

\* the order at position j of the queue of entry i of map, in book and in placed
Resting(side, i, j) == book[side][i].value.orders[j]
Placed(side, i, j) == placed[side][i].value.orders[j]

\* C2: in every state reached by OrderBook.add and place_market_order, an
\* order whose remaining is less than the quantity it was added with has only
\* orders of remaining 0 ahead of it in its queue.
C2_TimePriority ==
    \A side \in Sides : \A i \in 1..Len(book[side]) :
        \A j \in 1..Len(book[side][i].value.orders) :
            Resting(side, i, j).size < Placed(side, i, j).size =>
                \A k \in 1..(j - 1) : Resting(side, i, k).size = 0

\* a queue whose second order is partly filled, after a market order
C2_Witness ==
    /\ IsMarketCall
    /\ \E side \in Sides : \E i \in 1..Len(book[side]) :
        /\ Len(book[side][i].value.orders) >= 2
        /\ Resting(side, i, 2).size > 0
        /\ Resting(side, i, 2).size < Placed(side, i, 2).size
        /\ Resting(side, i, 1).size = 0

----------------------------------------------------------------------------
(* C3 *)

\* some order of the Limit has less remaining in l2 than in l1
Reduced(l1, l2) ==
    \E j \in 1..Len(l1.orders) : l2.orders[j].size < l1.orders[j].size

\* C3: place_market_order changes only the opposing side; every opposing Limit
\* at a strictly better price than a Limit it reduced ends with volume 0; and
\* the Limits behind a reduced Limit that keeps volume are unchanged.
C3_PricePriority ==
    [][ IsMarketCall' =>
          LET t == call'.order.order_type
              before == Opposing(book, t)
              after == Opposing(book', t)
          IN  /\ Own(book', t) = Own(book, t)
              /\ Len(after) = Len(before)
              /\ \A i, k \in 1..Len(before) :
                    /\ Reduced(before[i].value, after[i].value)
                    /\ Better(t, before[k].key, before[i].key)
                    => volume(after[k].value) = 0
              /\ \A i, k \in 1..Len(before) :
                    /\ Reduced(before[i].value, after[i].value)
                    /\ volume(after[i].value) > 0
                    /\ Better(t, before[i].key, before[k].key)
                    => after[k] = before[k] ]_vars

\* a market order has emptied the best opposing Limit and partly filled the
\* next, and a third, worse one still holds what was placed
C3_Witness ==
    /\ IsMarketCall
    /\ is_filled(call.out)
    /\ LET t == call.order.order_type
           m == Opposing(book, t)
           pm == Opposing(placed, t)
       IN  \E i, k, n \in 1..Len(m) :
             /\ Better(t, m[k].key, m[i].key)
             /\ Better(t, m[i].key, m[n].key)
             /\ volume(m[k].value) = 0
             /\ Reduced(pm[i].value, m[i].value)
             /\ volume(m[i].value) > 0
             /\ m[n] = pm[n]

----------------------------------------------------------------------------
(* C4 *)

\* C4: in every place_market_order the resting orders lose in total exactly
\* what the incoming order loses.
C4_VolumeConservation ==
    [][ IsMarketCall' =>
          LET t == call'.order.order_type
          IN  ExactSideSum(Opposing(book, t)) - ExactSideSum(Opposing(book', t))
                = call'.order.size - call'.out.size ]_vars

----------------------------------------------------------------------------
(* C5 *)

\* C5: place_market_order with quantity q against an opposing side of total
\* volume V leaves the incoming order with max(0, q - V), filled iff q <= V,
\* and when q > V every opposing resting order ends with remaining 0.
C5_InsufficientLiquidity ==
    [][ IsMarketCall' =>
          LET t == call'.order.order_type
              q == call'.order.size
              V == ExactSideSum(Opposing(book, t))
          IN  /\ call'.out.size = Max0(q - V)
              /\ (is_filled(call'.out) <=> q <= V)
              /\ (q > V => ExactSideSum(Opposing(book', t)) = 0) ]_vars

----------------------------------------------------------------------------
(* C6 *)

\* the Limits of map2 are those of map1, each with the same price and as many
\* orders of the same types
SameShape(map1, map2) ==
    /\ Len(map2) = Len(map1)
    /\ \A i \in 1..Len(map1) :
        /\ map2[i].key = map1[i].key
        /\ map2[i].value.price = map1[i].value.price
        /\ Len(map2[i].value.orders) = Len(map1[i].value.orders)
        /\ \A j \in 1..Len(map1[i].value.orders) :
            map2[i].value.orders[j].order_type = map1[i].value.orders[j].order_type

\* C6: place_market_order adds no order and no Limit to either side, and
\* leaves the incoming order's own side unchanged, whether or not the incoming
\* order ends filled.
C6_MarketOrderNeverRests ==
    [][ IsMarketCall' =>
          LET t == call'.order.order_type
          IN  /\ Own(book', t) = Own(book, t)
              /\ SameShape(Opposing(book, t), Opposing(book', t))
              /\ OrderCount(book') = OrderCount(book) ]_vars

\* a market order that ended partly filled, its own side holding orders
C6_Witness ==
    /\ IsMarketCall
    /\ call.out.size > 0
    /\ call.out.size < call.order.size
    /\ Len(Own(book, call.order.order_type)) > 0
    /\ Len(Opposing(book, call.order.order_type)) > 0

----------------------------------------------------------------------------
(* C7 *)

\* C7: OrderBook.add(order, price) changes only the order's side at that
\* price: a missing Limit is created there, the order becomes the last of that
\* Limit's queue with its quantity, and every other Limit, every order queued
\* before and the opposite side stay as they were.
C7_AddFrame ==
    [][ IsAddCall' =>
          LET order == call'.order
              t == order.order_type
              k == PriceNew(call'.price)
              m1 == Own(book, t)
              m2 == Own(book', t)
          IN  /\ Opposing(book', t) = Opposing(book, t)
              /\ IF \E i \in 1..Len(m1) : PriceEq(m1[i].key, k)
                 THEN /\ Len(m2) = Len(m1)
                      /\ \A i \in 1..Len(m1) :
                           /\ m2[i].key = m1[i].key
                           /\ m2[i].value.price = m1[i].value.price
                           /\ m2[i].value.orders =
                                IF PriceEq(m1[i].key, k)
                                THEN m1[i].value.orders \o <<order>>
                                ELSE m1[i].value.orders
                 ELSE /\ Len(m2) = Len(m1) + 1
                      /\ \E n \in 1..Len(m2) :
                           /\ m2[n] = [key |-> k,
                                       value |-> [price |-> k, orders |-> <<order>>]]
                           /\ \A i \in 1..Len(m1) :
                                m1[i] = IF i < n THEN m2[i] ELSE m2[i + 1] ]_vars

\* an order added behind a partly filled order, the opposite side not empty
C7_Witness ==
    /\ IsAddCall
    /\ LET t == call.order.order_type
           m == Own(book, t)
           pm == Own(placed, t)
       IN  /\ Len(Opposing(book, t)) > 0
           /\ \E i \in 1..Len(m) :
                /\ PriceEq(m[i].key, PriceNew(call.price))
                /\ Len(m[i].value.orders) = 2
                /\ m[i].value.orders[2] = call.order
                /\ m[i].value.orders[1].size > 0
                /\ m[i].value.orders[1].size < pm[i].value.orders[1].size

----------------------------------------------------------------------------
(* C8 *)

\* refs names every position 1..n exactly once
IsPermutation(refs, n) ==
    /\ Len(refs) = n
    /\ {refs[i] : i \in 1..Len(refs)} = 1..n

\* C8: in every reachable state ask_limits() returns every ask Limit exactly
\* once in strictly ascending price order, and bid_limits() every bid Limit
\* exactly once in strictly descending price order.
C8_PriorityOrdering ==
    LET a == ask_limits(book)
        b == bid_limits(book)
    IN  /\ IsPermutation(a, Len(book.asks))
        /\ IsPermutation(b, Len(book.bids))
        /\ \A i, j \in 1..Len(a) :
             i < j => PriceVal(book.asks[a[i]].value.price)
                        < PriceVal(book.asks[a[j]].value.price)
        /\ \A i, j \in 1..Len(b) :
             i < j => PriceVal(book.bids[b[i]].value.price)
                        > PriceVal(book.bids[b[j]].value.price)

\* three bid Limits, the one of the middle price created last
C8_Witness ==
    /\ IsAddCall
    /\ Len(book.bids) = 3
    /\ bid_limits(book) = <<3, 2, 1>>
    /\ book.bids[2].key = PriceNew(call.price)
    /\ book.bids[2].value.orders = <<call.order>>

----------------------------------------------------------------------------
(* C9 *)

IsAddOrderbookCall == call.op = "Engine::add_orderbook"
IsPlaceLimitOrderCall == call.op = "Engine::place_limit_order"

\* C9: add_orderbook inserts the book only when the instrument is absent; when
\* it is present the registry is unchanged, so the first book keeps its
\* contents, and a later place_limit_order for the instrument adds its order
\* to the book registered there and to no other.
C9_FirstRegistrationWins ==
    [][ /\ IsAddOrderbookCall' =>
            IF call'.tp \in DOMAIN orderbooks
            THEN orderbooks' = orderbooks
            ELSE /\ DOMAIN orderbooks' = DOMAIN orderbooks \cup {call'.tp}
                 /\ orderbooks'[call'.tp] = call'.orderbook
                 /\ \A x \in DOMAIN orderbooks : orderbooks'[x] = orderbooks[x]
        /\ (IsPlaceLimitOrderCall' /\ call'.tp \in DOMAIN orderbooks) =>
            /\ DOMAIN orderbooks' = DOMAIN orderbooks
            /\ OrderCount(orderbooks'[call'.tp]) = OrderCount(orderbooks[call'.tp]) + 1
            /\ \A x \in DOMAIN orderbooks \ {call'.tp} :
                 orderbooks'[x] = orderbooks[x] ]_vars

\* a second book, holding an order, offered for an instrument whose first
\* book holds other orders
C9_Witness ==
    /\ IsAddOrderbookCall
    /\ call.tp \in DOMAIN orderbooks
    /\ OrderCount(call.orderbook) > 0
    /\ OrderCount(orderbooks[call.tp]) > 0
    /\ orderbooks[call.tp] # call.orderbook

----------------------------------------------------------------------------
(* C10 *)

\* C10: place_limit_order for an instrument that is not registered returns
\* the error value, registers nothing, and leaves every book unchanged.
C10_NotFound ==
    [][ (IsPlaceLimitOrderCall' /\ call'.tp \notin DOMAIN orderbooks) =>
            /\ call'.result = "Err(Orderbook does not exist)"
            /\ orderbooks' = orderbooks ]_vars

\* the error returned while another instrument's book holds orders
C10_Witness ==
    /\ IsPlaceLimitOrderCall
    /\ call.result = "Err(Orderbook does not exist)"
    /\ call.tp \notin DOMAIN orderbooks
    /\ \E x \in DOMAIN orderbooks : OrderCount(orderbooks[x]) > 0

----------------------------------------------------------------------------
(* C11 *)

\* the book holds a bid at a price >= the price of one of its asks
Crossed(b) ==
    \E i \in 1..Len(b.bids), j \in 1..Len(b.asks) :
        PriceVal(b.bids[i].key) >= PriceVal(b.asks[j].key)

\* C11: place_limit_order for a registered instrument returns Ok and queues
\* the order in full, and no resting order changes its remaining, also when
\* the order's price crosses the opposite side.
C11_NoMatchOnInsertion ==
    [][ (IsPlaceLimitOrderCall' /\ call'.tp \in DOMAIN orderbooks) =>
          LET b1 == orderbooks[call'.tp]
              b2 == orderbooks'[call'.tp]
              t == call'.order.order_type
              k == PriceNew(call'.price)
              m1 == Own(b1, t)
              m2 == Own(b2, t)
          IN  /\ call'.result = "Ok"
              /\ Opposing(b2, t) = Opposing(b1, t)
              /\ \E n \in 1..Len(m2) :
                    /\ PriceEq(m2[n].key, k)
                    /\ m2[n].value.orders[Len(m2[n].value.orders)] = call'.order
              /\ \A i \in 1..Len(m1) : \E n \in 1..Len(m2) :
                    /\ m2[n].key = m1[i].key
                    /\ SubSeq(m2[n].value.orders, 1, Len(m1[i].value.orders))
                         = m1[i].value.orders ]_vars

\* a bid queued in full at a price above a resting ask, which keeps its size
C11_Witness ==
    /\ IsPlaceLimitOrderCall
    /\ call.result = "Ok"
    /\ call.order.order_type = "Bid"
    /\ call.tp \in DOMAIN orderbooks
    /\ LET b == orderbooks[call.tp]
       IN  /\ Crossed(b)
           /\ \E i \in 1..Len(b.bids), j \in 1..Len(b.asks) :
                /\ b.bids[i].key = PriceNew(call.price)
                /\ b.bids[i].value.orders = <<call.order>>
                /\ PriceVal(b.bids[i].key) > PriceVal(b.asks[j].key)
                /\ b.asks[j].value.orders = <<OrderNew("Ask", 2)>>

----------------------------------------------------------------------------
(* C12 *)

\* C12: after a fill pass no queue holds an order of remaining 0: the orders
\* the pass consumed have been removed.
C12_ConsumedOrdersPurged ==
    IsMarketCall =>
        \A side \in Sides : \A i \in 1..Len(book[side]) :
            \A j \in 1..Len(book[side][i].value.orders) :
                Resting(side, i, j).size # 0

----------------------------------------------------------------------------
(* C13 *)

\* every order of map1 is in map2, in the Limit of its price and at its
\* position, and Holds of its size before and after
EachOrder(map1, map2, Holds(_, _)) ==
    \A i \in 1..Len(map1) :
        LET n == Find(map2, map1[i].key)
        IN  /\ n # 0
            /\ Len(map2[n].value.orders) >= Len(map1[i].value.orders)
            /\ \A j \in 1..Len(map1[i].value.orders) :
                 Holds(map1[i].value.orders[j].size, map2[n].value.orders[j].size)

\* a remaining quantity never grows and stays 0 once it is 0
Monotonic(before, after) == after <= before /\ (before = 0 => after = 0)

\* C13: over add and place_market_order the remaining of every order, resting
\* or incoming, never increases, and an order at 0 stays at 0.
C13_LifecycleMonotonic ==
    [][ /\ EachOrder(book.asks, book'.asks, Monotonic)
        /\ EachOrder(book.bids, book'.bids, Monotonic)
        /\ Monotonic(call'.order.size, call'.out.size) ]_vars

\* after a market order: one order filled, the next partly filled, and the
\* incoming order filled
C13_Witness ==
    /\ IsMarketCall
    /\ call.out.size = 0
    /\ \E side \in Sides : \E i \in 1..Len(book[side]) :
        /\ Len(book[side][i].value.orders) >= 2
        /\ Resting(side, i, 1).size = 0
        /\ Placed(side, i, 1).size > 0
        /\ Resting(side, i, 2).size > 0
        /\ Resting(side, i, 2).size < Placed(side, i, 2).size

----------------------------------------------------------------------------
(* C15 *)

\* the prices of map1 are prices of map2, and no queue of map2 is shorter
LevelsKept(map1, map2) ==
    \A i \in 1..Len(map1) :
        \E n \in 1..Len(map2) :
            /\ PriceEq(map2[n].key, map1[i].key)
            /\ Len(map2[n].value.orders) >= Len(map1[i].value.orders)

\* C15: over add and place_market_order the prices present on each side only
\* grow and no queue gets shorter, also once all orders of a level are filled.
C15_LevelsNeverRemoved ==
    [][ /\ LevelsKept(book.asks, book'.asks)
        /\ LevelsKept(book.bids, book'.bids) ]_vars

\* a market order has left a level whose two orders are both filled
C15_Witness ==
    /\ IsMarketCall
    /\ \E side \in Sides : \E i \in 1..Len(book[side]) :
        /\ Len(book[side][i].value.orders) = 2
        /\ Placed(side, i, 1).size > 0
        /\ Placed(side, i, 2).size > 0
        /\ volume(book[side][i].value) = 0

----------------------------------------------------------------------------
(* C19 *)

\* C19: with orders created with non-negative quantities, the remaining of
\* every resting and every incoming order is >= 0 and <= the quantity the
\* order was created with.
C19_QuantitiesInRange ==
    /\ \A side \in Sides : \A i \in 1..Len(book[side]) :
         \A j \in 1..Len(book[side][i].value.orders) :
            /\ Resting(side, i, j).size >= 0
            /\ Resting(side, i, j).size <= Placed(side, i, j).size
    /\ call.out.size >= 0
    /\ call.out.size <= call.order.size

\* a market order larger than the opposing side: the resting orders at 0, the
\* incoming order with a remainder
C19_Witness ==
    /\ IsMarketCall
    /\ call.out.size > 0
    /\ call.out.size < call.order.size
    /\ LET m == Opposing(book, call.order.order_type)
       IN  /\ Len(m) >= 2
           /\ \A i \in 1..Len(m) : volume(m[i].value) = 0

----------------------------------------------------------------------------
(* C20 *)

\* C20: a successful place_limit_order for instrument X changes only the book
\* registered under X: the registered instruments and the books under every
\* other key, compared on base and quote verbatim, are unchanged.
C20_InstrumentIsolation ==
    [][ (IsPlaceLimitOrderCall' /\ call'.result = "Ok") =>
          /\ call'.tp \in DOMAIN orderbooks
          /\ DOMAIN orderbooks' = DOMAIN orderbooks
          /\ orderbooks'[call'.tp] # orderbooks[call'.tp]
          /\ \A x \in DOMAIN orderbooks :
                (x.base # call'.tp.base \/ x.quote # call'.tp.quote)
                    => orderbooks'[x] = orderbooks[x] ]_vars

\* an order placed for BTC/USD while btc/USD is registered with another book
C20_Witness ==
    /\ IsPlaceLimitOrderCall
    /\ call.result = "Ok"
    /\ call.tp = TradingPairNew("BTC", "USD")
    /\ TradingPairNew("btc", "USD") \in DOMAIN orderbooks
    /\ OrderCount(orderbooks[TradingPairNew("btc", "USD")]) = 1
    /\ OrderCount(orderbooks[call.tp]) = 1

----------------------------------------------------------------------------
(* C18 *)

\* C18: place_market_order visits each opposing Limit in one run and each
\* resting order at most once, so its fill steps number no more than the
\* resting orders of the opposing side and the call returns.
C18_MatchBounded ==
    [][ IsMarketCall' =>
          LET v == call'.visited
              m == Opposing(book, call'.order.order_type)
          IN  /\ \A a \in 1..Len(v) :
                    /\ v[a][1] \in 1..Len(m)
                    /\ v[a][2] \in 1..Len(m[v[a][1]].value.orders)
              /\ \A a, b \in 1..Len(v) : a < b => v[a] # v[b]
              /\ \A a, b, c \in 1..Len(v) :
                    (a < b /\ b < c /\ v[a][1] = v[c][1]) => v[b][1] = v[a][1]
              /\ Len(v) <= CountFrom(m, 1) ]_vars

\* a market order filled by the first of three Limits: the loop still runs
\* once on each of the other two, as many steps as there are resting orders
C18_Witness ==
    /\ IsMarketCall
    /\ is_filled(call.out)
    /\ Len(call.visited) = 3
    /\ LET m == Opposing(book, call.order.order_type)
           pm == Opposing(placed, call.order.order_type)
       IN  /\ Len(m) = 3
           /\ \E i \in 1..3 : m[i] # pm[i]
           /\ \E i \in 1..3 : m[i] = pm[i]

----------------------------------------------------------------------------
(* C14 *)

\* the pair (integral, fractional) as one number, scalar left out
LexKey(k) == k.integral * (MaxPart + 1) + k.fractional

Flip(o) == IF o = "Less" THEN "Greater" ELSE IF o = "Greater" THEN "Less" ELSE o

\* C14: cmp(a, b) is decided by integral first and by fractional on a tie, it
\* is a total order, and a == b holds exactly when cmp(a, b) is Equal,
\* whatever the two scalar fields are.
C14_PriceOrder ==
    LET a == compared.a
        b == compared.b
        c == compared.c
    IN  /\ (compared.ab = "Less") = (LexKey(a) < LexKey(b))
        /\ (compared.ab = "Equal") = (LexKey(a) = LexKey(b))
        /\ (compared.ab = "Greater") = (LexKey(a) > LexKey(b))
        /\ (a.integral < b.integral => compared.ab = "Less")
        /\ compared.ba = Flip(compared.ab)
        /\ (compared.ab # "Greater" /\ compared.bc # "Greater")
              => compared.ac # "Greater"
        /\ (compared.ab = "Less" /\ compared.bc # "Greater")
              => compared.ac = "Less"
        /\ compared.eq = (compared.ab = "Equal")

\* two Prices of different scalar compared Equal and ==
C14_Witness ==
    /\ call.op = "Price::cmp"
    /\ compared.a.scalar # compared.b.scalar
    /\ compared.a.integral = compared.b.integral
    /\ compared.a.fractional = compared.b.fractional
    /\ compared.ab = "Equal"
    /\ compared.eq
    /\ compared.bc = "Less"

----------------------------------------------------------------------------
(* C16 *)

\* the requests that went through lock() and returned
Served == {i \in 1..MaxRequests :
              tasks[i].pc = "done" /\ \E n \in 1..Len(serial.order) : serial.order[n] = i}

\* C16: under any interleaving of add_order and get_spread requests at most
\* one request holds the engine guard, for unrelated instruments too; what a
\* request read of the registry is the registry until it returns; every
\* response is the one of the serial execution in the order the guard was
\* acquired; and with no guard alive the registry is the one that serial
\* execution produced.
C16_ExclusiveAccess ==
    /\ Cardinality(guards) <= 1
    /\ \A i \in 1..MaxRequests : tasks[i].pc = "read" => tasks[i].engine = orderbooks
    /\ \A i \in Served : tasks[i].response = serial.responses[i]
    /\ guards = {} => orderbooks = serial.engine

\* the second request got the guard first and placed an ask at the best
\* bid's price; the first one then read the spread 0 while a request for the
\* other instrument was not involved
C16_Witness ==
    /\ serial.order = <<2, 1>>
    /\ tasks[1].pc = "done" /\ tasks[2].pc = "done"
    /\ tasks[2].method = "add_order" /\ tasks[2].response.code = "Ok"
    /\ tasks[1].method = "get_spread" /\ tasks[1].response.code = "Ok"
    /\ tasks[1].response.spread = 0
    /\ orderbooks = serial.engine
    /\ Len(orderbooks[TradingPairNew("BTC", "USD")].asks) = 2

----------------------------------------------------------------------------
(* C17 *)

\* the add_order requests that returned for an instrument without a book
Unregistered == {i \in 1..MaxRequests :
                    /\ tasks[i].pc = "done"
                    /\ tasks[i].method = "add_order"
                    /\ ParseOrderType(tasks[i].req.order_type) # "invalid"
                    /\ TradingPairNew(tasks[i].req.trading_pair, "USD")
                          \notin DOMAIN orderbooks}

\* C17: an add_order request for an instrument with no registered book is
\* answered with a not-found status, and the engine is left unchanged.
C17_NotFoundResponse ==
    \A i \in Unregistered :
        /\ tasks[i].response.code = "NotFound"
        /\ orderbooks = EngineNew

====
